---- MODULE Spec2Model ----
(***************************************************************************)
(* MediTrack: the persistence and domain-model layer.                      *)
(*                                                                         *)
(* The flat-file backend (meditrack_ver_2.cpp: saveData / loadData) is     *)
(* modelled at the level of characters: a file is a sequence of one-       *)
(* character strings, and the reads of loadData are the stream operations  *)
(* the code uses (operator>>, ignore, getline, stoi), each with the        *)
(* stream's fail and eof bits.  The relational backend                     *)
(* (mediTrack_ver_3.cpp: DatabaseManager) is modelled as four tables with  *)
(* AUTOINCREMENT row ids and foreign keys.                                 *)
(***************************************************************************)
EXTENDS Integers, Sequences, FiniteSets, TLC

(***************************************************************************)
(* Bounds of the model.                                                    *)
(***************************************************************************)
\* operations (load, save, add..., restart) in one behaviour
MaxOps == 5
\* decimal places a modelled double carries: a double d is the integer d * 10^Scale
Scale == 5

(***************************************************************************)
(* Program constants.                                                      *)
(***************************************************************************)
\* the ceiling of loadData's sanity check on the patient count
MaxPatientCount == 10000
\* significant digits operator<<(double) writes (the stream's default precision)
Precision == 6
\* the largest int: operator>>(int&) and stoi fail beyond it
IntMax == 2147483647

(***************************************************************************)
(* Text.  A string is a sequence of characters.                            *)
(***************************************************************************)
NL == "\n"
CR == "\r"
Bar == "|"
Space == " "
Digits == <<"0", "1", "2", "3", "4", "5", "6", "7", "8", "9">>
DigitSet == {Digits[i] : i \in 1..10}
Whitespace == {Space, NL, CR, "\t"}

DigitVal(c) == (CHOOSE i \in 1..10 : Digits[i] = c) - 1

RECURSIVE Pow10(_)
Pow10(n) == IF n <= 0 THEN 1 ELSE 10 * Pow10(n - 1)

RECURSIVE NumDigits(_)
NumDigits(n) == IF n < 10 THEN 1 ELSE 1 + NumDigits(n \div 10)

RECURSIVE Flatten(_)
Flatten(ss) == IF ss = <<>> THEN <<>> ELSE Head(ss) \o Flatten(Tail(ss))

\* std::string::npos; positions in a std::string are counted from 0
NPOS == -1
\* the count "to the end of the string" that an unsigned difference wraps to
ToEnd == IntMax

\* std::string::find(ch, from): the first position >= from holding ch, or npos
RECURSIVE Find(_, _, _)
Find(str, ch, from) ==
    IF from >= Len(str) THEN NPOS
    ELSE IF str[from + 1] = ch THEN from
    ELSE Find(str, ch, from + 1)

\* pos + 1 in size_t arithmetic: npos + 1 wraps to 0
Plus1(pos) == IF pos = NPOS THEN 0 ELSE pos + 1

\* pos2 - pos1 - 1 in size_t arithmetic: with pos2 = npos the difference wraps
\* to a count beyond every string length
Between(pos1, pos2) == IF pos2 = NPOS THEN ToEnd ELSE pos2 - pos1 - 1

\* std::string::substr(pos, count), count clamped to the end of the string
\* (npos as a count is the largest size_t)
Substr(str, pos, count) ==
    LET last == IF count = NPOS \/ count >= Len(str) - pos THEN Len(str) ELSE pos + count
    IN  SubSeq(str, pos + 1, last)

(***************************************************************************)
(* operator<< : what saveData writes for a number.                         *)
(***************************************************************************)
RECURSIVE FormatNat(_)
FormatNat(n) ==
    IF n < 10 THEN <<Digits[n + 1]>>
    ELSE FormatNat(n \div 10) \o <<Digits[(n % 10) + 1]>>

\* operator<<(int), operator<<(size_t), operator<<(time_t)
FormatInt(n) == IF n < 0 THEN <<"-">> \o FormatNat(-n) ELSE FormatNat(n)

\* the value operator<<(double) keeps: Precision significant digits, rounded
RoundSig(m) ==
    LET d == NumDigits(m) IN
    IF d <= Precision THEN m
    ELSE LET r == Pow10(d - Precision) IN ((m + r \div 2) \div r) * r

\* the fraction digits of m (Scale of them), trailing zeros dropped
RECURSIVE FracDigits(_, _)
FracDigits(f, n) ==
    IF f = 0 \/ n = 0 THEN <<>>
    ELSE <<Digits[(f \div Pow10(n - 1)) + 1]>> \o FracDigits(f % Pow10(n - 1), n - 1)

\* operator<<(double) in the default (%g) format, for 0 and for magnitudes
\* the model uses (fixed notation: 1e-4 <= |d| < 1e6)
FormatDouble(m) ==
    LET a == RoundSig(IF m < 0 THEN -m ELSE m)
        ip == a \div Pow10(Scale)
        fp == a % Pow10(Scale)
    IN  (IF m < 0 THEN <<"-">> ELSE <<>>)
        \o FormatNat(ip)
        \o (IF fp = 0 THEN <<>> ELSE <<".">> \o FracDigits(fp, Scale))

(***************************************************************************)
(* The input stream.  A stream over the characters buf is the position of  *)
(* the next character (from 1) and the fail and eof bits.  Every read      *)
(* first builds a sentry: on a stream that is not good() it sets failbit   *)
(* and reads nothing.                                                      *)
(***************************************************************************)
Good(s) == ~s.fail /\ ~s.eof

Failed(s) == [s EXCEPT !.fail = TRUE]

RECURSIVE SkipWs(_, _)
SkipWs(buf, p) ==
    IF p <= Len(buf) /\ buf[p] \in Whitespace THEN SkipWs(buf, p + 1) ELSE p

RECURSIVE DigitsEnd(_, _)
DigitsEnd(buf, p) ==
    IF p <= Len(buf) /\ buf[p] \in DigitSet THEN DigitsEnd(buf, p + 1) ELSE p

RECURSIVE WordEnd(_, _)
WordEnd(buf, p) ==
    IF p <= Len(buf) /\ buf[p] \notin Whitespace THEN WordEnd(buf, p + 1) ELSE p

\* the value of the digits buf[from..to], or -1 when it exceeds IntMax
RECURSIVE DigitsValue(_, _, _, _)
DigitsValue(buf, from, to, acc) ==
    IF from > to THEN acc
    ELSE LET d == DigitVal(buf[from]) IN
         IF acc > (IntMax - d) \div 10 THEN -1
         ELSE DigitsValue(buf, from + 1, to, acc * 10 + d)

\* the first n fraction digits buf[from..to] as an integer (short ones padded)
RECURSIVE FracValue(_, _, _, _)
FracValue(buf, from, to, n) ==
    IF n = 0 THEN 0
    ELSE IF from > to THEN 0
    ELSE DigitVal(buf[from]) * Pow10(n - 1) + FracValue(buf, from + 1, to, n - 1)

\* operator>>(int&).  Result: the stream, whether the read succeeded, whether
\* the target was assigned (a read the sentry refuses leaves it untouched),
\* and the value assigned (0 on a failed conversion, the limit on overflow).
ReadInt(buf, s) ==
    IF ~Good(s) THEN [s |-> Failed(s), ok |-> FALSE, set |-> FALSE, val |-> 0]
    ELSE
    LET p == SkipWs(buf, s.pos) IN
    IF p > Len(buf)
    THEN [s |-> [pos |-> p, fail |-> TRUE, eof |-> TRUE],
          ok |-> FALSE, set |-> FALSE, val |-> 0]
    ELSE
    LET neg == buf[p] = "-"
        p1 == IF buf[p] \in {"-", "+"} THEN p + 1 ELSE p
        q == DigitsEnd(buf, p1)
        v == DigitsValue(buf, p1, q - 1, 0)
    IN  IF q = p1
        THEN [s |-> [pos |-> p1, fail |-> TRUE, eof |-> p1 > Len(buf)],
              ok |-> FALSE, set |-> TRUE, val |-> 0]
        ELSE IF v = -1
        THEN [s |-> [pos |-> q, fail |-> TRUE, eof |-> q > Len(buf)],
              ok |-> FALSE, set |-> TRUE, val |-> IF neg THEN -IntMax ELSE IntMax]
        ELSE [s |-> [pos |-> q, fail |-> FALSE, eof |-> q > Len(buf)],
              ok |-> TRUE, set |-> TRUE, val |-> IF neg THEN -v ELSE v]

\* operator>>(time_t&): a long; the model's timestamps are below IntMax
ReadLong(buf, s) == ReadInt(buf, s)

\* operator>>(double&): sign, digits, an optional point and fraction digits
ReadDouble(buf, s) ==
    IF ~Good(s) THEN [s |-> Failed(s), ok |-> FALSE, set |-> FALSE, val |-> 0]
    ELSE
    LET p == SkipWs(buf, s.pos) IN
    IF p > Len(buf)
    THEN [s |-> [pos |-> p, fail |-> TRUE, eof |-> TRUE],
          ok |-> FALSE, set |-> FALSE, val |-> 0]
    ELSE
    LET neg == buf[p] = "-"
        p1 == IF buf[p] \in {"-", "+"} THEN p + 1 ELSE p
        q == DigitsEnd(buf, p1)
        point == q <= Len(buf) /\ buf[q] = "."
        r == IF point THEN DigitsEnd(buf, q + 1) ELSE q
        ip == DigitsValue(buf, p1, q - 1, 0)
        fp == IF point THEN FracValue(buf, q + 1, r - 1, Scale) ELSE 0
        v == ip * Pow10(Scale) + fp
    IN  IF q = p1 /\ (~point \/ r = q + 1)
        THEN [s |-> [pos |-> r, fail |-> TRUE, eof |-> r > Len(buf)],
              ok |-> FALSE, set |-> TRUE, val |-> 0]
        ELSE [s |-> [pos |-> r, fail |-> FALSE, eof |-> r > Len(buf)],
              ok |-> TRUE, set |-> TRUE, val |-> IF neg THEN -v ELSE v]

\* operator>>(string&): the next whitespace-delimited word
ReadWord(buf, s) ==
    IF ~Good(s) THEN [s |-> Failed(s), ok |-> FALSE, val |-> <<>>]
    ELSE
    LET p == SkipWs(buf, s.pos) IN
    IF p > Len(buf)
    THEN [s |-> [pos |-> p, fail |-> TRUE, eof |-> TRUE], ok |-> FALSE, val |-> <<>>]
    ELSE LET q == WordEnd(buf, p) IN
         [s |-> [pos |-> q, fail |-> FALSE, eof |-> q > Len(buf)],
          ok |-> TRUE, val |-> SubSeq(buf, p, q - 1)]

\* istream::ignore(): drop one character
Ignore(buf, s) ==
    IF ~Good(s) THEN Failed(s)
    ELSE IF s.pos > Len(buf) THEN [s EXCEPT !.eof = TRUE]
    ELSE [s EXCEPT !.pos = s.pos + 1]

\* std::getline(file, line): the characters up to the next newline, which is
\* dropped.  A refused read leaves line as it was; a read that finds no
\* character at all empties line and fails.
GetLine(buf, s, line) ==
    IF ~Good(s) THEN [s |-> Failed(s), ok |-> FALSE, line |-> line]
    ELSE
    LET e == Find(buf, NL, s.pos - 1) IN
    IF e # NPOS
    THEN [s |-> [s EXCEPT !.pos = e + 2], ok |-> TRUE,
          line |-> SubSeq(buf, s.pos, e)]
    ELSE IF s.pos > Len(buf)
    THEN [s |-> [pos |-> s.pos, fail |-> TRUE, eof |-> TRUE],
          ok |-> FALSE, line |-> <<>>]
    ELSE [s |-> [pos |-> Len(buf) + 1, fail |-> FALSE, eof |-> TRUE],
          ok |-> TRUE, line |-> SubSeq(buf, s.pos, Len(buf))]

\* std::stoi(str): leading whitespace, a sign, digits; what follows the digits
\* is ignored.  Without a digit it throws std::invalid_argument, beyond int
\* std::out_of_range: ok is FALSE.
Stoi(str) ==
    LET p == SkipWs(str, 1)
        neg == p <= Len(str) /\ str[p] = "-"
        p1 == IF p <= Len(str) /\ str[p] \in {"-", "+"} THEN p + 1 ELSE p
        q == DigitsEnd(str, p1)
        v == DigitsValue(str, p1, q - 1, 0)
    IN  IF q = p1 \/ v = -1 THEN [ok |-> FALSE, val |-> 0]
        ELSE [ok |-> TRUE, val |-> IF neg THEN -v ELSE v]

(***************************************************************************)
(* The domain model.  A record is [kind, v1, v2, ts]: kind is the concrete *)
(* class, v1/v2 are systolic/diastolic (int) for BloodPressure and the     *)
(* double weight or sugar in v1 (v2 = 0) for the others, ts is timestamp.  *)
(* A double d is carried as the integer d * 10^Scale.                      *)
(***************************************************************************)
\* HealthRecord::getType()
getType(kind) ==
    CASE kind = "BP" -> <<"B", "P">>
      [] kind = "Weight" -> <<"W", "e", "i", "g", "h", "t">>
      [] kind = "Sugar" -> <<"S", "u", "g", "a", "r">>

BloodPressureRecord(s, d, t) == [kind |-> "BP", v1 |-> s, v2 |-> d, ts |-> t]
WeightRecord(w, t) == [kind |-> "Weight", v1 |-> w, v2 |-> 0, ts |-> t]
BloodSugarRecord(s, t) == [kind |-> "Sugar", v1 |-> s, v2 |-> 0, ts |-> t]
Medication(n, d, s) == [name |-> n, dosage |-> d, schedule |-> s]
Reminder(m, d, t) == [message |-> m, date |-> d, reminderTime |-> t]
Patient(n, a, c) ==
    [name |-> n, age |-> a, contactInfo |-> c,
     records |-> <<>>, medications |-> <<>>, reminders |-> <<>>]

\* addRecord putting the record first: what C24 rules out
addRecordFirst(p, r) == [p EXCEPT !.records = <<r>> \o @]

\* Patient::addRecord, addMedication, addReminder: push_back
addRecord(p, r) == [p EXCEPT !.records = Append(@, r)]
addMedication(p, m) == [p EXCEPT !.medications = Append(@, m)]
addReminder(p, r) == [p EXCEPT !.reminders = Append(@, r)]

(***************************************************************************)
(* saveData: the text of the flat file.                                    *)
(***************************************************************************)
\* RecordSave writing a second later than the record's timestamp: what C25
\* rules out
RecordSaveLater(r) ==
    getType(r.kind) \o <<Space>>
    \o (IF r.kind = "BP"
        THEN FormatInt(r.v1) \o <<Space>> \o FormatInt(r.v2)
        ELSE FormatDouble(r.v1))
    \o <<Space>> \o FormatInt(r.ts + 1) \o <<NL>>

\* BloodPressureRecord::save, WeightRecord::save, BloodSugarRecord::save
RecordSave(r) ==
    getType(r.kind) \o <<Space>>
    \o (IF r.kind = "BP"
        THEN FormatInt(r.v1) \o <<Space>> \o FormatInt(r.v2)
        ELSE FormatDouble(r.v1))
    \o <<Space>> \o FormatInt(r.ts) \o <<NL>>

\* Medication::save
MedicationSave(m) == m.name \o <<Bar>> \o m.dosage \o <<Bar>> \o m.schedule \o <<NL>>

\* Reminder::save
ReminderSave(r) == r.message \o <<Bar>> \o r.date \o <<Bar>> \o r.reminderTime \o <<NL>>

\* the lines saveData writes for one patient, each with its newline
PatientLines(p) ==
    <<p.name \o <<Bar>> \o FormatInt(p.age) \o <<Bar>> \o p.contactInfo \o <<NL>>>>
    \o <<FormatInt(Len(p.records)) \o <<NL>>>>
    \o [j \in 1..Len(p.records) |-> RecordSave(p.records[j])]
    \o <<FormatInt(Len(p.medications)) \o <<NL>>>>
    \o [j \in 1..Len(p.medications) |-> MedicationSave(p.medications[j])]
    \o <<FormatInt(Len(p.reminders)) \o <<NL>>>>
    \o [j \in 1..Len(p.reminders) |-> ReminderSave(p.reminders[j])]

\* the lines of the whole file: the patient count, then every patient
FileLines(count, P) ==
    <<FormatInt(count) \o <<NL>>>> \o Flatten([i \in 1..Len(P) |-> PatientLines(P[i])])

\* the text saveData writes for the collection P
saveDataText(P) == Flatten(FileLines(Len(P), P))

(***************************************************************************)
(* loadData.                                                               *)
(***************************************************************************)
MsgNoData == "No previous data found. Starting a new session."
MsgBadCount == "Error: Could not read patient count from file. File may be corrupt."
MsgUnreasonable == "Error: Unreasonable patient count found in file. Aborting load."
MsgPatientLine == "Error reading patient data line."
MsgPatientParse == "Error parsing patient data."
MsgRecordCount == "Error reading record count."
MsgMedCount == "Error reading medication count."
MsgRemCount == "Error reading reminder count."
MsgLoaded == "Data loaded successfully"
MsgSaved == "Data saved successfully"
MsgCannotWrite == "Error: Could not open file for writing."
ErrorMsgs ==
    {MsgBadCount, MsgUnreasonable, MsgPatientLine, MsgPatientParse,
     MsgRecordCount, MsgMedCount, MsgRemCount, MsgCannotWrite}

\* the value a variable holds after operator>>: the value read, or, when the
\* read was refused and the variable never assigned, an indeterminate one
Held(r, garbage) == IF r.set THEN r.val ELSE garbage

\* the record loop of loadData (for j < recordCount): [s, p]
RECURSIVE LoadRecords(_, _, _, _, _, _)
LoadRecords(buf, s, j, recordCount, p, garbage) ==
    IF j >= recordCount THEN [s |-> s, p |-> p]
    ELSE
    LET type == ReadWord(buf, s) IN
    IF type.val = getType("BP")
    THEN LET sy == ReadInt(buf, type.s)
             di == ReadInt(buf, sy.s)
             ts == ReadLong(buf, di.s)
         IN  LoadRecords(buf, Ignore(buf, ts.s), j + 1, recordCount,
                 addRecord(p, BloodPressureRecord(Held(sy, garbage),
                     Held(di, garbage), Held(ts, garbage))), garbage)
    ELSE IF type.val = getType("Weight")
    THEN LET w == ReadDouble(buf, type.s)
             ts == ReadLong(buf, w.s)
         IN  LoadRecords(buf, Ignore(buf, ts.s), j + 1, recordCount,
                 addRecord(p, WeightRecord(Held(w, garbage), Held(ts, garbage))),
                 garbage)
    ELSE IF type.val = getType("Sugar")
    THEN LET su == ReadDouble(buf, type.s)
             ts == ReadLong(buf, su.s)
         IN  LoadRecords(buf, Ignore(buf, ts.s), j + 1, recordCount,
                 addRecord(p, BloodSugarRecord(Held(su, garbage), Held(ts, garbage))),
                 garbage)
    ELSE LoadRecords(buf, Ignore(buf, type.s), j + 1, recordCount, p, garbage)

\* the three fields loadData cuts out of a medication or reminder line; the
\* code does not test pos1 or pos2 against npos here
FirstField(line) == Substr(line, 0, Find(line, Bar, 0))
SecondField(line) ==
    LET pos1 == Find(line, Bar, 0)
        pos2 == Find(line, Bar, Plus1(pos1))
    IN  Substr(line, Plus1(pos1), Between(pos1, pos2))
ThirdField(line) ==
    LET pos1 == Find(line, Bar, 0)
        pos2 == Find(line, Bar, Plus1(pos1))
    IN  Substr(line, Plus1(pos2), ToEnd)

\* the medication loop of loadData (for j < medCount): [s, p, line]
RECURSIVE LoadMedications(_, _, _, _, _, _)
LoadMedications(buf, s, j, medCount, p, line) ==
    IF j >= medCount THEN [s |-> s, p |-> p, line |-> line]
    ELSE LET gl == GetLine(buf, s, line) IN
         LoadMedications(buf, gl.s, j + 1, medCount,
             addMedication(p, Medication(FirstField(gl.line), SecondField(gl.line),
                 ThirdField(gl.line))),
             gl.line)

\* the reminder loop of loadData (for j < remCount): [s, p, line]
RECURSIVE LoadReminders(_, _, _, _, _, _)
LoadReminders(buf, s, j, remCount, p, line) ==
    IF j >= remCount THEN [s |-> s, p |-> p, line |-> line]
    ELSE LET gl == GetLine(buf, s, line) IN
         LoadReminders(buf, gl.s, j + 1, remCount,
             addReminder(p, Reminder(FirstField(gl.line), SecondField(gl.line),
                 ThirdField(gl.line))),
             gl.line)

\* The body of the patient loop after the header line was cut, in the order
\* of the code; each step is given the result of the read before it.  The
\* result is [s, p, err]: err is the message of the break taken, or "" when
\* the patient is complete.

\* "file >> remCount", ignore(), the reminder loop
LoadPatientReminders(buf, remc, p, line) ==
    IF ~remc.ok THEN [s |-> remc.s, p |-> p, err |-> MsgRemCount]
    ELSE [s |-> LoadReminders(buf, Ignore(buf, remc.s), 0, remc.val, p, line).s,
          p |-> LoadReminders(buf, Ignore(buf, remc.s), 0, remc.val, p, line).p,
          err |-> ""]

\* the medication loop, then the reminders
LoadPatientAfterMedications(buf, meds) ==
    LoadPatientReminders(buf, ReadInt(buf, meds.s), meds.p, meds.line)

\* "file >> medCount", ignore(), the medication loop
LoadPatientMedications(buf, mc, p, line) ==
    IF ~mc.ok THEN [s |-> mc.s, p |-> p, err |-> MsgMedCount]
    ELSE LoadPatientAfterMedications(buf,
             LoadMedications(buf, Ignore(buf, mc.s), 0, mc.val, p, line))

\* the record loop, then the medications
LoadPatientAfterRecords(buf, recs, line) ==
    LoadPatientMedications(buf, ReadInt(buf, recs.s), recs.p, line)

\* "file >> recordCount", ignore(), the record loop
LoadPatientRecords(buf, rc, p, line, garbage) ==
    IF ~rc.ok THEN [s |-> rc.s, p |-> p, err |-> MsgRecordCount]
    ELSE LoadPatientAfterRecords(buf,
             LoadRecords(buf, Ignore(buf, rc.s), 0, rc.val, p, garbage), line)

LoadPatientBody(buf, s, p, line, garbage) ==
    LoadPatientRecords(buf, ReadInt(buf, s), p, line, garbage)

\* The patient loop of loadData (for i < patientCount).  The result is
\* [patients, out, thrown]: thrown is TRUE when stoi threw, which nothing
\* catches.
RECURSIVE LoadPatientLoop(_, _, _, _, _, _, _)

\* the end of one pass: a break, or push_back and the next pass
LoadPatientPush(buf, body, i, patientCount, pats, out, garbage) ==
    IF body.err # ""
    THEN [patients |-> pats, out |-> Append(out, body.err), thrown |-> FALSE]
    ELSE LoadPatientLoop(buf, body.s, i + 1, patientCount,
             Append(pats, body.p), out, garbage)

\* the header line cut at pos1 and pos2, stoi of the age, the body
LoadPatientFields(buf, s, line, pos1, pos2, age, i, patientCount, pats, out, garbage) ==
    IF ~age.ok
    THEN [patients |-> pats, out |-> out, thrown |-> TRUE]
    ELSE LoadPatientPush(buf,
             LoadPatientBody(buf, s,
                 Patient(Substr(line, 0, pos1), age.val, Substr(line, pos2 + 1, ToEnd)),
                 line, garbage),
             i, patientCount, pats, out, garbage)

\* LoadPatientHeader without the test of pos1 and pos2 against npos, as the
\* medication and reminder loops cut their lines: what C8 rules out
LoadPatientHeaderUnchecked(buf, s, line, pos1, pos2, i, patientCount, pats, out, garbage) ==
    LoadPatientFields(buf, s, line, pos1, pos2,
        Stoi(Substr(line, Plus1(pos1), Between(pos1, pos2))),
        i, patientCount, pats, out, garbage)

\* the header line read: the two separators looked for
LoadPatientHeader(buf, s, line, pos1, pos2, i, patientCount, pats, out, garbage) ==
    IF pos1 = NPOS \/ pos2 = NPOS
    THEN [patients |-> pats, out |-> Append(out, MsgPatientParse), thrown |-> FALSE]
    ELSE LoadPatientFields(buf, s, line, pos1, pos2,
             Stoi(Substr(line, pos1 + 1, pos2 - pos1 - 1)),
             i, patientCount, pats, out, garbage)

\* LoadPatientLine that leaves the loop on a failed getline without a
\* message: what C7 rules out
LoadPatientLineSilent(buf, gl, i, patientCount, pats, out, garbage) ==
    IF ~gl.ok
    THEN [patients |-> pats, out |-> out, thrown |-> FALSE]
    ELSE LoadPatientHeader(buf, gl.s, gl.line, Find(gl.line, Bar, 0),
             Find(gl.line, Bar, Plus1(Find(gl.line, Bar, 0))),
             i, patientCount, pats, out, garbage)

\* getline of the header line
LoadPatientLine(buf, gl, i, patientCount, pats, out, garbage) ==
    IF ~gl.ok
    THEN [patients |-> pats, out |-> Append(out, MsgPatientLine), thrown |-> FALSE]
    ELSE LoadPatientHeader(buf, gl.s, gl.line, Find(gl.line, Bar, 0),
             Find(gl.line, Bar, Plus1(Find(gl.line, Bar, 0))),
             i, patientCount, pats, out, garbage)

LoadPatientLoop(buf, s, i, patientCount, pats, out, garbage) ==
    IF i >= patientCount
    THEN [patients |-> pats, out |-> out, thrown |-> FALSE]
    ELSE LoadPatientLine(buf, GetLine(buf, s, <<>>), i, patientCount, pats, out, garbage)

\* the end of loadData: file.close() and the last message, unless stoi threw
LoadDataEnd(r) == IF r.thrown THEN r ELSE [r EXCEPT !.out = Append(@, MsgLoaded)]

\* LoadDataCount with the ceiling tested and the sign not: what C10 rules out
LoadDataCountNoFloor(buf, pc, pats, garbage) ==
    IF ~pc.ok
    THEN [patients |-> pats, out |-> <<MsgBadCount>>, thrown |-> FALSE]
    ELSE IF pc.val > MaxPatientCount
    THEN [patients |-> pats, out |-> <<MsgUnreasonable>>, thrown |-> FALSE]
    ELSE LoadDataEnd(LoadPatientLoop(buf, Ignore(buf, pc.s), 0, pc.val, pats, <<>>, garbage))

\* the patient count read: the two checks on it, then the patient loop
LoadDataCount(buf, pc, pats, garbage) ==
    IF ~pc.ok
    THEN [patients |-> pats, out |-> <<MsgBadCount>>, thrown |-> FALSE]
    ELSE IF pc.val < 0 \/ pc.val > MaxPatientCount
    THEN [patients |-> pats, out |-> <<MsgUnreasonable>>, thrown |-> FALSE]
    ELSE LoadDataEnd(LoadPatientLoop(buf, Ignore(buf, pc.s), 0, pc.val, pats, <<>>, garbage))

\* loadData without the test of the stream after it is opened: the count is
\* read from a stream that holds nothing.  What C12 rules out
LoadDataResultUntested(f, pats, garbage) ==
    LoadDataCount(f.data, ReadInt(f.data, [pos |-> 1, fail |-> FALSE, eof |-> FALSE]),
        pats, garbage)

\* loadData(patients) on the file f = [exists, data]: the collection it
\* leaves in patients, what it prints, and whether an exception left it
LoadDataResult(f, pats, garbage) ==
    IF ~f.exists
    THEN [patients |-> pats, out |-> <<MsgNoData>>, thrown |-> FALSE]
    ELSE LoadDataCount(f.data, ReadInt(f.data, [pos |-> 1, fail |-> FALSE, eof |-> FALSE]),
             pats, garbage)

(***************************************************************************)
(* The state.                                                              *)
(***************************************************************************)
VARIABLES
    backend,    \* "flat" (meditrack_ver_2) or "sql" (mediTrack_ver_3): fixed for a run
    patients,   \* the in-memory vector<unique_ptr<Patient>>
    status,     \* "running", or "terminated" after an uncaught exception
    out,        \* what the last persistence operation printed
    file,       \* meditrack_data.txt: [exists, data]
    db,         \* meditrack.db and the connection to it
    last,       \* history: the last operation, the one before it, its outcome
    saved,      \* history: the collection the store was last written from
    ops,        \* history: the number of operations so far
    clock,      \* what localtime(time(0)) answers: tm_year, tm_mon, tm_mday, tm_hour, tm_min
    view,       \* what the last BMI, trend or reminder query read and displayed
    reported    \* history: the day of the last reminder check, the reminders shown due
                \* that day, the times of the first and the last check of that day

vars == <<backend, patients, status, out, file, db, last, saved, ops, clock, view, reported>>

(***************************************************************************)
(* Inputs: what the user types, what the clock shows.                      *)
(***************************************************************************)
\* patients the vector may hold, and records, medications, reminders per patient
MaxPatients == 2
MaxRecords == 2
MaxMedications == 1
MaxReminders == 1

Names == {<<"a">>}
Ages == {5}
Contacts == {<<"c">>}
\* time(0) when a record is entered
Times == {100}
\* 70.5 kg and 70.12346 kg, 110 mg/dL
WeightInputs == {705 * Pow10(Scale - 1), 7012346 * Pow10(Scale - 5)}
SugarInputs == {110 * Pow10(Scale)}
NewRecords ==
    {BloodPressureRecord(120, 80, t) : t \in Times}
    \cup {WeightRecord(w, t) : w \in WeightInputs, t \in Times}
    \cup {BloodSugarRecord(s, t) : s \in SugarInputs, t \in Times}
\* the second name holds the separator saveData writes between fields
NewMedications ==
    {Medication(n, <<"5", "m", "g">>, <<"s">>) : n \in {<<"m">>, <<"m", "|", "x">>}}
\* the lines typed at "Date (YYYY-MM-DD)" and "Time (HH:MM, 24-hr)": 08:00,
\* and nine o'clock typed as 9:00
NewReminders ==
    {Reminder(<<"r">>, <<"2", "0", "2", "6", "-", "0", "1", "-", "0", "2">>, t) :
         t \in {<<"0", "8", ":", "0", "0">>, <<"9", ":", "0", "0">>}}
\* values an uninitialised int or double may hold
Indeterminate == {0, 7}

\* the readings of the clock, in the order it gives them: 2026-01-01 09:00,
\* then 07:05, 08:00, 09:00 and 10:30 of 2026-01-02
ClockValues ==
    <<[tm_year |-> 126, tm_mon |-> 0, tm_mday |-> 1, tm_hour |-> 9, tm_min |-> 0],
      [tm_year |-> 126, tm_mon |-> 0, tm_mday |-> 2, tm_hour |-> 7, tm_min |-> 5],
      [tm_year |-> 126, tm_mon |-> 0, tm_mday |-> 2, tm_hour |-> 8, tm_min |-> 0],
      [tm_year |-> 126, tm_mon |-> 0, tm_mday |-> 2, tm_hour |-> 9, tm_min |-> 0],
      [tm_year |-> 126, tm_mon |-> 0, tm_mday |-> 2, tm_hour |-> 10, tm_min |-> 30]>>
\* no query yet; no reminder shown due yet
NoView == [op |-> "none", i |-> 0, input |-> <<>>, weight |-> 0, said |-> <<>>, shown |-> <<>>]
NotReported == [day |-> <<>>, due |-> {}, since |-> ClockValues[1], at |-> ClockValues[1]]

\* the history of an operation: fresh is whether it found the vector empty
Did(op, ok) == [op |-> op, prev |-> last.op, ok |-> ok, fresh |-> patients = <<>>]
\* one more operation, within the bound
Count == ops < MaxOps /\ ops' = ops + 1
NotSaved == [valid |-> FALSE, P |-> <<>>]

(***************************************************************************)
(* Patient operations (the menu of patientSubMenu and addNewPatient).      *)
(***************************************************************************)
AddNewPatient ==
    /\ Count
    /\ status = "running"
    /\ Len(patients) < MaxPatients
    /\ \E n \in Names, a \in Ages, c \in Contacts :
           patients' = Append(patients, Patient(n, a, c))
    /\ last' = Did("add", TRUE)
    /\ UNCHANGED <<backend, status, out, file, db, saved, clock, view, reported>>

AddRecord ==
    /\ Count
    /\ status = "running"
    /\ \E i \in 1..Len(patients), r \in NewRecords :
           /\ Len(patients[i].records) < MaxRecords
           /\ patients' = [patients EXCEPT ![i] = addRecord(@, r)]
    /\ last' = Did("add", TRUE)
    /\ UNCHANGED <<backend, status, out, file, db, saved, clock, view, reported>>

AddMedication ==
    /\ Count
    /\ status = "running"
    /\ \E i \in 1..Len(patients), m \in NewMedications :
           /\ Len(patients[i].medications) < MaxMedications
           /\ patients' = [patients EXCEPT ![i] = addMedication(@, m)]
    /\ last' = Did("add", TRUE)
    /\ UNCHANGED <<backend, status, out, file, db, saved, clock, view, reported>>

AddReminder ==
    /\ Count
    /\ status = "running"
    /\ \E i \in 1..Len(patients), r \in NewReminders :
           /\ Len(patients[i].reminders) < MaxReminders
           /\ patients' = [patients EXCEPT ![i] = addReminder(@, r)]
    /\ last' = Did("add", TRUE)
    /\ UNCHANGED <<backend, status, out, file, db, saved, clock, view, reported>>

(***************************************************************************)
(* The flat-file backend.                                                  *)
(***************************************************************************)
\* saveData(patients).  ofstream's constructor truncates the file when it can
\* open it; canOpen is whether it can.
SaveData ==
    /\ Count
    /\ backend = "flat"
    /\ status = "running"
    /\ \E canOpen \in BOOLEAN :
           IF canOpen
           THEN /\ file' = [exists |-> TRUE, data |-> saveDataText(patients)]
                /\ out' = <<MsgSaved>>
                /\ saved' = [valid |-> TRUE, P |-> patients]
                /\ last' = Did("save", TRUE)
           ELSE /\ out' = <<MsgCannotWrite>>
                /\ last' = Did("save", FALSE)
                /\ UNCHANGED <<file, saved>>
    /\ UNCHANGED <<backend, patients, status, db, clock, view, reported>>

\* loadData(patients).  An exception stoi throws is caught nowhere: the
\* process is terminated.
LoadData ==
    /\ Count
    /\ backend = "flat"
    /\ status = "running"
    /\ \E garbage \in Indeterminate :
           LET r == LoadDataResult(file, patients, garbage) IN
           /\ Len(r.patients) <= MaxPatients
           /\ patients' = r.patients
           /\ out' = r.out
           /\ status' = IF r.thrown THEN "terminated" ELSE "running"
           /\ last' = Did("load", ~r.thrown)
    /\ UNCHANGED <<backend, file, db, saved, clock, view, reported>>

(***************************************************************************)
(* The relational backend (DatabaseManager of mediTrack_ver_3.cpp).        *)
(*                                                                         *)
(* A table is the sequence of its rows in rowid order, which is the order  *)
(* a SELECT without ORDER BY scans a table that has no index.  seq is      *)
(* sqlite_sequence: the largest rowid AUTOINCREMENT ever gave in a table.  *)
(* fk is the connection's foreign_keys pragma, lastRowid what              *)
(* sqlite3_last_insert_rowid answers.  A nullable column holds <<>> for    *)
(* NULL and <<v>> for the value v.  handle is the member DB: "null" before *)
(* open, "open", "error" (a handle that can only be closed) or "closed";   *)
(* closes counts the calls of sqlite3_close on it.                         *)
(***************************************************************************)
\* rowids one table may use up
MaxRowId == 4

Null == <<>>
Real(v) == <<v>>
\* sqlite3_column_double: 0.0 for NULL
ColumnDouble(c) == IF c = Null THEN 0 ELSE c[1]

RowIds(table) == {table[i].id : i \in 1..Len(table)}

\* "... WHERE patient_id = ?": the rows of table that reference id, in table order
RECURSIVE RowsOf(_, _)
RowsOf(table, id) ==
    IF table = <<>> THEN <<>>
    ELSE (IF Head(table).patient_id = id THEN <<Head(table)>> ELSE <<>>)
         \o RowsOf(Tail(table), id)

\* the rows of table that reference none of the ids gone, in table order
RECURSIVE RowsLeft(_, _)
RowsLeft(table, gone) ==
    IF table = <<>> THEN <<>>
    ELSE (IF Head(table).patient_id \notin gone THEN <<Head(table)>> ELSE <<>>)
         \o RowsLeft(Tail(table), gone)

\* DatabaseManager::open on the database file: a new connection.  handle is
\* the member DB, closes the number of sqlite3_close calls on it.
open(d) == [d EXCEPT !.fk = FALSE, !.lastRowid = 0, !.handle = "open", !.closes = 0]

\* DatabaseManager::open when sqlite3_open returns an error: "Error opening
\* database" and false.  sqlite3_open leaves a handle that can only be
\* closed, or no handle when it could not allocate one.
openFails(d, allocated) ==
    [d EXCEPT !.handle = IF allocated THEN "error" ELSE "null", !.closes = 0]

\* the destructor without the sqlite3_close: what C30 rules out
DestructorLeaks(d) == d

\* ~DatabaseManager: if (DB) sqlite3_close(DB)
Destructor(d) ==
    IF d.handle # "null" THEN [d EXCEPT !.handle = "closed", !.closes = @ + 1] ELSE d

\* createTables without the PRAGMA (the connection keeps SQLite's default,
\* foreign keys not enforced): what C4 rules out
createTablesNoPragma(d) == d

\* DatabaseManager::createTables: PRAGMA foreign_keys = ON, then the four
\* CREATE TABLE IF NOT EXISTS, which leave existing tables and rows alone
createTables(d) == [d EXCEPT !.fk = TRUE]

\* the database file before the program ever ran
NoDatabase ==
    [patients |-> <<>>, health_records |-> <<>>, medications |-> <<>>,
     reminders |-> <<>>,
     seq |-> [patients |-> 0, health_records |-> 0, medications |-> 0, reminders |-> 0],
     fk |-> FALSE, lastRowid |-> 0, handle |-> "null", closes |-> 0]

\* what sqlite3_step reads through the pointer sqlite3_bind_text was given with
\* SQLITE_STATIC.  The pointer is c_str() of the temporary std::string a getter
\* returned by value, destroyed at the end of the bind statement: the read is
\* of a dangling pointer.  The length was taken at bind time; the bytes are
\* the string's when the storage was left alone (clobbered = FALSE) and
\* other bytes when it was reused.
BoundText(str, clobbered) ==
    IF clobbered THEN [i \in 1..Len(str) |-> "?"] ELSE str

\* "DELETE FROM patients;": with foreign keys enforced, ON DELETE CASCADE
\* removes the rows that reference a deleted patient
DeletePatients(d) ==
    LET gone == IF d.fk THEN RowIds(d.patients) ELSE {}
    IN  [d EXCEPT !.patients = <<>>,
                  !.health_records = RowsLeft(@, gone),
                  !.medications = RowsLeft(@, gone),
                  !.reminders = RowsLeft(@, gone)]

\* whether an INSERT of a row that references patient_id passes the
\* foreign-key check
ForeignKeyHolds(d, patient_id) == ~d.fk \/ patient_id \in RowIds(d.patients)

\* "INSERT INTO patients (name, age, contact) VALUES (?, ?, ?);"
InsertPatient(d, p, clobbered) ==
    LET id == d.seq.patients + 1 IN
    [d EXCEPT !.patients = Append(@, [id |-> id,
                  name |-> BoundText(p.name, clobbered), age |-> p.age,
                  contact |-> BoundText(p.contactInfo, clobbered)]),
              !.seq.patients = id, !.lastRowid = id]

\* "INSERT INTO health_records (patient_id, type, value1, value2, timestamp)":
\* the type is a string literal; value2 is bound for BloodPressure only
InsertRecord(d, patient_id, r) ==
    IF ~ForeignKeyHolds(d, patient_id) THEN d
    ELSE
    LET id == d.seq.health_records + 1 IN
    [d EXCEPT !.health_records = Append(@, [id |-> id, patient_id |-> patient_id,
                  type |-> getType(r.kind), value1 |-> Real(r.v1),
                  value2 |-> IF r.kind = "BP" THEN Real(r.v2) ELSE Null,
                  timestamp |-> r.ts]),
              !.seq.health_records = id, !.lastRowid = id]

\* "INSERT INTO medications (patient_id, name, dosage, schedule)"
InsertMedication(d, patient_id, m, clobbered) ==
    IF ~ForeignKeyHolds(d, patient_id) THEN d
    ELSE
    LET id == d.seq.medications + 1 IN
    [d EXCEPT !.medications = Append(@, [id |-> id, patient_id |-> patient_id,
                  name |-> BoundText(m.name, clobbered),
                  dosage |-> BoundText(m.dosage, clobbered),
                  schedule |-> BoundText(m.schedule, clobbered)]),
              !.seq.medications = id, !.lastRowid = id]

\* "INSERT INTO reminders (patient_id, message, date, time)"
InsertReminder(d, patient_id, r, clobbered) ==
    IF ~ForeignKeyHolds(d, patient_id) THEN d
    ELSE
    LET id == d.seq.reminders + 1 IN
    [d EXCEPT !.reminders = Append(@, [id |-> id, patient_id |-> patient_id,
                  message |-> BoundText(r.message, clobbered),
                  date |-> BoundText(r.date, clobbered),
                  time |-> BoundText(r.reminderTime, clobbered)]),
              !.seq.reminders = id, !.lastRowid = id]

\* the statements saveAllPatients runs, in order: the DELETE, then for every
\* patient its INSERT and the INSERTs of its records, medications, reminders
PatientStatements(p) ==
    <<[k |-> "patient", x |-> p]>>
    \o [j \in 1..Len(p.records) |-> [k |-> "record", x |-> p.records[j]]]
    \o [j \in 1..Len(p.medications) |-> [k |-> "medication", x |-> p.medications[j]]]
    \o [j \in 1..Len(p.reminders) |-> [k |-> "reminder", x |-> p.reminders[j]]]

Statements(P) ==
    <<[k |-> "delete", x |-> <<>>]>>
    \o Flatten([i \in 1..Len(P) |-> PatientStatements(P[i])])

\* one statement, run: patient_id is saveAllPatients' local variable
Step(d, st, patient_id, clobbered) ==
    CASE st.k = "delete" -> DeletePatients(d)
      [] st.k = "patient" -> InsertPatient(d, st.x, clobbered)
      [] st.k = "record" -> InsertRecord(d, patient_id, st.x)
      [] st.k = "medication" -> InsertMedication(d, patient_id, st.x, clobbered)
      [] st.k = "reminder" -> InsertReminder(d, patient_id, st.x, clobbered)

\* saveAllPatients from statement i on.  No return code is looked at: a
\* statement that fails (the one numbered failAt, if any) changes nothing and
\* the next one runs.  After a patient's INSERT, patient_id is
\* sqlite3_last_insert_rowid(DB), whether or not the INSERT went through.
RECURSIVE RunStatements(_, _, _, _, _, _)
RunStatements(d, stmts, i, failAt, patient_id, clobbered) ==
    IF i > Len(stmts) THEN d
    ELSE
    LET d1 == IF i = failAt THEN d ELSE Step(d, stmts[i], patient_id, clobbered)
        pid == IF stmts[i].k = "patient" THEN d1.lastRowid ELSE patient_id
    IN  RunStatements(d1, stmts, i + 1, failAt, pid, clobbered)

\* DatabaseManager::saveAllPatients(patients)
saveAllPatients(d, P, failAt, clobbered) ==
    RunStatements(d, Statements(P), 1, failAt, 0, clobbered)

\* the records loadPatients builds from the health_records rows of one patient
RECURSIVE RecordsOf(_)
RecordsOf(rows) ==
    IF rows = <<>> THEN <<>>
    ELSE
    LET row == Head(rows)
        val1 == ColumnDouble(row.value1)
        val2 == ColumnDouble(row.value2)
    IN  (IF row.type = getType("BP")
         THEN <<BloodPressureRecord(val1, val2, row.timestamp)>>
         ELSE IF row.type = getType("Weight")
         THEN <<WeightRecord(val1, row.timestamp)>>
         ELSE IF row.type = getType("Sugar")
         THEN <<BloodSugarRecord(val1, row.timestamp)>>
         ELSE <<>>)
        \o RecordsOf(Tail(rows))

\* DatabaseManager::loadPatients: patients.clear(), then one patient per row
\* of patients, with the rows of the three other tables that reference it
loadPatients(d) ==
    [i \in 1..Len(d.patients) |->
        LET row == d.patients[i]
            meds == RowsOf(d.medications, row.id)
            rems == RowsOf(d.reminders, row.id)
        IN  [name |-> row.name, age |-> row.age, contactInfo |-> row.contact,
             records |-> RecordsOf(RowsOf(d.health_records, row.id)),
             medications |->
                 [j \in 1..Len(meds) |->
                     Medication(meds[j].name, meds[j].dosage, meds[j].schedule)],
             reminders |->
                 [j \in 1..Len(rems) |->
                     Reminder(rems[j].message, rems[j].date, rems[j].time)]]]

MsgDbSaved == "All data saved to database."
MsgDbLoaded == "Loaded patients from database."

\* db.saveAllPatients(patients).  failAt = 0: every statement goes through.
SaveAllPatients ==
    /\ Count
    /\ backend = "sql"
    /\ status = "running"
    /\ db.seq.patients + Len(patients) <= MaxRowId
    /\ \E failAt \in 0..Len(Statements(patients)), clobbered \in BOOLEAN :
           /\ db' = saveAllPatients(db, patients, failAt, clobbered)
           /\ saved' = IF failAt = 0 THEN [valid |-> TRUE, P |-> patients] ELSE NotSaved
           /\ last' = Did("save", failAt = 0)
    /\ out' = <<MsgDbSaved>>
    /\ UNCHANGED <<backend, patients, status, file, clock, view, reported>>

\* db.loadPatients(patients)
LoadPatients ==
    /\ Count
    /\ backend = "sql"
    /\ status = "running"
    /\ patients' = loadPatients(db)
    /\ out' = <<MsgDbLoaded>>
    /\ last' = Did("load", TRUE)
    /\ UNCHANGED <<backend, status, file, db, saved, clock, view, reported>>

\* the process ends and the program is started again: main's vector is empty,
\* and with the database main opens a new connection and calls createTables
Restart ==
    /\ Count
    /\ patients' = <<>>
    /\ status' = "running"
    /\ out' = <<>>
    /\ db' = IF backend = "sql" THEN createTables(open(db)) ELSE db
    /\ last' = Did("restart", TRUE)
    /\ UNCHANGED <<backend, file, saved, clock, view, reported>>

(***************************************************************************)
(* The specification: the persistence operations and the Patient           *)
(* operations, called in any order on one backend.                         *)
(***************************************************************************)
Init ==
    /\ backend \in {"flat", "sql"}
    /\ patients = <<>>
    /\ status = "running"
    /\ out = <<>>
    /\ file = [exists |-> FALSE, data |-> <<>>]
    /\ db = createTables(open(NoDatabase))
    /\ last = [op |-> "none", prev |-> "none", ok |-> TRUE, fresh |-> TRUE]
    /\ saved = NotSaved
    /\ ops = 0
    /\ clock = ClockValues[1]
    /\ view = NoView
    /\ reported = NotReported

Next ==
    \/ AddNewPatient
    \/ AddRecord
    \/ AddMedication
    \/ AddReminder
    \/ SaveData
    \/ LoadData
    \/ SaveAllPatients
    \/ LoadPatients
    \/ Restart

Spec == Init /\ [][Next]_vars

(***************************************************************************)
(* Files loadData may find: meditrack_data.txt written by something other  *)
(* than saveData, or damaged.  A file is a count line and blocks; a block  *)
(* is the lines of one patient, as saveData lays them out, or such lines   *)
(* with one of them replaced or the last ones missing.                     *)
(***************************************************************************)
\* blocks in one file
MaxBlocks == 2

\* patients whose values saveData writes in full (70.5 kg)
BarePatient == Patient(<<"a">>, 5, <<"c">>)
FullPatient ==
    addReminder(
        addMedication(
            addRecord(Patient(<<"b">>, 6, <<"d">>), WeightRecord(705 * Pow10(Scale - 1), 100)),
            Medication(<<"m">>, <<"5", "m", "g">>, <<"s">>)),
        Reminder(<<"r">>, <<"2", "0", "2", "6">>, <<"0", "8", ":", "0", "0">>))
FilePatients == {BarePatient, FullPatient}

\* the sequences of at most n elements of S
RECURSIVE SeqsUpTo(_, _)
SeqsUpTo(S, n) ==
    IF n = 0 THEN {<<>>}
    ELSE SeqsUpTo(S, n - 1) \cup {Append(q, x) : q \in SeqsUpTo(S, n - 1), x \in S}

\* the collections a file of well-formed blocks holds
FileCollections == SeqsUpTo(FilePatients, MaxBlocks)

\* the lines of FullPatient, by the read of loadData that consumes them
HeaderLine == 1
RecordLine == 3
MedicationLine == 5
ReminderLine == 7

\* the block lines with line k replaced by text
ReplaceLine(lines, k, text) == [lines EXCEPT ![k] = text \o <<NL>>]

\* header lines with fewer than two separators
BadHeaders == {<<"b", "6", "d">>, <<"b", "|", "6", "d">>}
\* header lines with two separators and no number between them
BadAges == {<<"b", "|", "x", "|", "d">>, <<"b", "|", "|", "d">>}
\* record lines with a type that is none of BP, Weight, Sugar
UnknownTypes == {<<"F", "o", "o">>, <<"F", "o", "o", " ", "1", " ", "2">>}
\* record lines of a known type with a field that is no number
BadNumbers ==
    {<<"B", "P", " ", "x", " ", "8", "0", " ", "1", "0", "0">>,
     <<"W", "e", "i", "g", "h", "t", " ", "x", " ", "1", "0", "0">>}
\* medication and reminder lines with fewer than two separators
BadMedications == {<<"m">>, <<"m", "|", "d">>}
BadReminders == {<<"r">>, <<"r", "|", "d">>}

\* the blocks of FullPatient with line k replaced by one of texts
DamagedBlocks(k, texts) == {ReplaceLine(PatientLines(FullPatient), k, t) : t \in texts}
\* blocks with a malformed line after the header
BadInnerBlocks ==
    DamagedBlocks(RecordLine, UnknownTypes \cup BadNumbers)
    \cup DamagedBlocks(MedicationLine, BadMedications)
    \cup DamagedBlocks(ReminderLine, BadReminders)
\* blocks with a malformed line
BadBlocks == DamagedBlocks(HeaderLine, BadHeaders \cup BadAges) \cup BadInnerBlocks
\* a block the file ends in the middle of: the medication line and what follows are missing
CutBlocks == {SubSeq(PatientLines(FullPatient), 1, MedicationLine - 1)}

\* the count lines of the block of p: records, medications, reminders
CountLines(p) == {2, 3 + Len(p.records), 4 + Len(p.records) + Len(p.medications)}
\* blocks that declare -1 records, medications or reminders
NegativeCountBlocks ==
    UNION {{ReplaceLine(PatientLines(p), k, <<"-", "1">>) : k \in CountLines(p)} :
               p \in FilePatients}

\* the blocks saveData writes for the collection P
BlocksOf(P) == [i \in 1..Len(P) |-> PatientLines(P[i])]

\* what follows the well-formed blocks of a file: nothing, or one damaged
\* block, or a damaged block and a well-formed one after it
Tails ==
    {<<>>}
    \cup {<<b>> : b \in BadBlocks \cup CutBlocks}
    \cup {<<b, PatientLines(p)>> : b \in BadBlocks, p \in FilePatients}

BlockSeqs ==
    {BlocksOf(P) \o t : P \in FileCollections, t \in Tails}

\* first lines: counts loadData accepts, and values it must refuse
GoodCounts == {FormatInt(n) : n \in 0..(MaxBlocks + 1)}
BadCounts ==
    {<<"x">>, <<"2", ".", "5">>, <<"-", "1">>, FormatInt(MaxPatientCount + 1),
     FormatInt(IntMax) \o <<"0">>}

\* the text of a file: the first line, then the blocks
FileText(first, blocks) == first \o <<NL>> \o Flatten(Flatten(blocks))

\* the text with "\r\n" where it has "\n": the file as an editor or a
\* program that ends lines with "\r\n" writes it.  ifstream hands the
\* characters of the file to loadData as they are.
WithCR(text) ==
    Flatten([i \in 1..Len(text) |-> IF text[i] = NL THEN <<CR, NL>> ELSE <<text[i]>>])

\* an empty file; a count and blocks; a first line that is no count, before
\* nothing or before well-formed blocks; a block with a negative count, last;
\* no block or one well-formed block, with lines that end in "\r\n"
CraftedFiles ==
    {<<>>}
    \cup {FileText(c, bs) : c \in GoodCounts, bs \in {q \in BlockSeqs : Len(q) <= MaxBlocks}}
    \cup {FileText(c, BlocksOf(P)) : c \in BadCounts, P \in SeqsUpTo(FilePatients, 1)}
    \cup {FileText(FormatInt(Len(P) + 1), Append(BlocksOf(P), b)) :
               P \in SeqsUpTo(FilePatients, 1), b \in NegativeCountBlocks}
    \cup {WithCR(FileText(FormatInt(Len(P)), BlocksOf(P))) : P \in SeqsUpTo(FilePatients, 1)}

\* the file holds the characters pre first
StartsWith(data, pre) == Len(data) >= Len(pre) /\ SubSeq(data, 1, Len(pre)) = pre

(***************************************************************************)
(* The specification of a load from a file found on disk: the program      *)
(* starts with any of the crafted files in place, patients may be added    *)
(* before loadData runs, and the program may be started again.             *)
(***************************************************************************)
InitLoad ==
    /\ backend = "flat"
    /\ patients = <<>>
    /\ status = "running"
    /\ out = <<>>
    /\ file \in {[exists |-> TRUE, data |-> d] : d \in CraftedFiles}
    /\ db = createTables(open(NoDatabase))
    /\ last = [op |-> "none", prev |-> "none", ok |-> TRUE, fresh |-> TRUE]
    /\ saved = NotSaved
    /\ ops = 0
    /\ clock = ClockValues[1]
    /\ view = NoView
    /\ reported = NotReported

NextLoad ==
    \/ AddNewPatient
    \/ LoadData
    \/ Restart

SpecLoad == InitLoad /\ [][NextLoad]_vars

(***************************************************************************)
(* The views of a patient (mediTrack_ver_3.cpp; meditrack_ver_2.cpp has    *)
(* the same code): BMI, trends, due reminders.  A double is an integer     *)
(* number of 10^-Scale; a height is typed with at most two decimals and    *)
(* taken in centimetres, a BMI in hundredths, what lies beyond dropped.    *)
(* The thresholds 18.5, 25 and 30 are whole hundredths, so that comparing  *)
(* the hundredths decides as comparing the quotient does.                  *)
(***************************************************************************)
\* the loop of calculateAndDisplayBMI over records[k], records[k-1], ...:
\* the weight of the first WeightRecord it meets, 0.0 when it meets none
RECURSIVE lastWeight(_, _)
lastWeight(records, k) ==
    IF k = 0 THEN 0
    ELSE IF records[k].kind = "Weight" THEN records[k].v1
    ELSE lastWeight(records, k - 1)

\* Category with each threshold in the class below it: what C16 rules out
CategoryInclusive(bmi) ==
    IF bmi <= 1850 THEN "Category: Underweight"
    ELSE IF bmi <= 2500 THEN "Category: Normal weight"
    ELSE IF bmi <= 3000 THEN "Category: Overweight"
    ELSE "Category: Obesity"

\* the if-else chain over bmi
Category(bmi) ==
    IF bmi < 1850 THEN "Category: Underweight"
    ELSE IF bmi < 2500 THEN "Category: Normal weight"
    ELSE IF bmi < 3000 THEN "Category: Overweight"
    ELSE "Category: Obesity"

\* p.calculateAndDisplayBMI() with typed on cin: the weight the scan found,
\* what is printed, and the weight, height and BMI displayed.  bmi is
\* lastWeight / (heightMeters * heightMeters), in hundredths
calculateAndDisplayBMI(p, typed) ==
    LET w == lastWeight(p.records, Len(p.records))
        r == ReadDouble(typed, [pos |-> 1, fail |-> FALSE, eof |-> FALSE])
        cm == r.val \div Pow10(Scale - 2)
        bmi == (w * 10) \div (cm * cm * Pow10(Scale - 5))
    IN  IF w <= 0
        THEN [weight |-> w, shown |-> <<>>,
              said |-> <<"BMI cannot be calculated. No weight records found.">>]
        ELSE IF ~r.ok \/ r.val <= 0
        THEN [weight |-> w, shown |-> <<>>,
              said |-> <<"Invalid height. Cannot calculate BMI.">>]
        ELSE [weight |-> w,
              shown |-> <<[weight |-> w, height |-> r.val, bmi |-> bmi]>>,
              said |-> <<Category(bmi)>>]

\* patientSubMenu case 5 on the patient selectPatient picked, with what the
\* user types at "Please enter patient's height in meters"
CalculateBMI ==
    /\ status = "running"
    /\ \E i \in 1..Len(patients),
          typed \in {<<"1", ".", "7", "5">>, <<"1", ".", "6">>, <<"2">>, <<"0">>,
                     <<"-", "1">>, <<"x">>} :
           LET b == calculateAndDisplayBMI(patients[i], typed) IN
           view' = [op |-> "bmi", i |-> i, input |-> typed, weight |-> b.weight,
                    said |-> b.said, shown |-> b.shown]
    /\ UNCHANGED <<backend, patients, status, out, file, db, last, saved, ops, clock, reported>>

\* TrendKind with every choice taken as a request for weights: what C18 rules out
TrendKindAlways(choice) == "Weight"

\* switch(choice): the class the dynamic_cast of that case looks for
TrendKind(choice) ==
    CASE choice = 1 -> "BP" [] choice = 2 -> "Weight" [] choice = 3 -> "Sugar"
      [] OTHER -> "default"

\* p.displayHealthTrend() with typed on cin: what is printed, the records displayed
displayHealthTrend(p, typed) ==
    LET r == ReadInt(typed, [pos |-> 1, fail |-> FALSE, eof |-> FALSE])
        kind == TrendKind(r.val)
        found == SelectSeq(p.records, LAMBDA rec : rec.kind = kind)
    IN  IF ~r.ok THEN [said |-> <<"Invalid input.">>, shown |-> <<>>]
        ELSE IF kind = "default"
        THEN [said |-> <<"--- Trend Report ---", "Invalid choice.">>, shown |-> <<>>]
        ELSE IF found = <<>>
        THEN [said |-> <<"--- Trend Report ---", "No records of that type found.">>,
              shown |-> <<>>]
        ELSE [said |-> <<"--- Trend Report ---">>, shown |-> found]

\* patientSubMenu case 6, with what the user types at "Enter your choice"
DisplayHealthTrend ==
    /\ status = "running"
    /\ \E i \in 1..Len(patients),
          typed \in {<<"0">>, <<"1">>, <<"2">>, <<"3">>, <<"4">>, <<"x">>} :
           LET t == displayHealthTrend(patients[i], typed) IN
           view' = [op |-> "trend", i |-> i, input |-> typed, weight |-> 0,
                    said |-> t.said, shown |-> t.shown]
    /\ UNCHANGED <<backend, patients, status, out, file, db, last, saved, ops, clock, reported>>

\* printf's %0<width>d of n >= 0
Pad(n, width) == [k \in 1..(width - NumDigits(n)) |-> "0"] \o FormatNat(n)

\* std::string a <= b: the first character that differs decides, by its code
\* (the digits in order, then ':'); a prefix comes before what it is a prefix of
RECURSIVE StrLeq(_, _)
StrLeq(a, b) ==
    LET code(c) == IF c \in DigitSet THEN DigitVal(c) ELSE 10 IN
    IF a = <<>> THEN TRUE
    ELSE IF b = <<>> THEN FALSE
    ELSE IF Head(a) = Head(b) THEN StrLeq(Tail(a), Tail(b))
    ELSE code(Head(a)) < code(Head(b))

\* isDue with < for <=: what C19 rules out
isDueBefore(r, c) ==
    LET todayDate ==
            Pad(1900 + c.tm_year, 4) \o <<"-">> \o Pad(1 + c.tm_mon, 2) \o <<"-">>
                \o Pad(c.tm_mday, 2)
        currentTime == Pad(c.tm_hour, 2) \o <<":">> \o Pad(c.tm_min, 2)
    IN  r.date = todayDate /\ r.reminderTime # currentTime
            /\ StrLeq(r.reminderTime, currentTime)

\* isDue with == for <=, a reminder due for one minute: what C20 rules out
isDueThisMinute(r, c) ==
    LET todayDate ==
            Pad(1900 + c.tm_year, 4) \o <<"-">> \o Pad(1 + c.tm_mon, 2) \o <<"-">>
                \o Pad(c.tm_mday, 2)
        currentTime == Pad(c.tm_hour, 2) \o <<":">> \o Pad(c.tm_min, 2)
    IN  r.date = todayDate /\ r.reminderTime = currentTime

\* r.isDue() when localtime(&now) answers c
isDue(r, c) ==
    LET todayDate ==
            Pad(1900 + c.tm_year, 4) \o <<"-">> \o Pad(1 + c.tm_mon, 2) \o <<"-">>
                \o Pad(c.tm_mday, 2)
        currentTime == Pad(c.tm_hour, 2) \o <<":">> \o Pad(c.tm_min, 2)
    IN  r.date = todayDate /\ StrLeq(r.reminderTime, currentTime)

\* p.checkReminders(): the positions in p.reminders of the reminders displayed
checkReminders(p, c) == {j \in 1..Len(p.reminders) : isDue(p.reminders[j], c)}

\* main, after the load: p->checkReminders() for a patient p of the vector;
\* a later check of the same patient is that of a later run of the program
CheckReminders ==
    /\ status = "running"
    /\ \E i \in 1..Len(patients) :
           LET due == checkReminders(patients[i], clock)
               day == <<clock.tm_year, clock.tm_mon, clock.tm_mday>>
           IN  /\ view' = [op |-> "reminders", i |-> i, input |-> <<>>, weight |-> 0,
                           said |-> IF due = {} THEN <<"No reminders are currently due.">>
                                    ELSE <<"Reminder Due: ">>,
                           shown |-> SelectSeq(patients[i].reminders,
                                               LAMBDA r : isDue(r, clock))]
               /\ reported' =
                      [day |-> day,
                       due |-> {<<i, j>> : j \in due}
                               \cup (IF reported.day = day THEN reported.due ELSE {}),
                       since |-> IF reported.day = day THEN reported.since ELSE clock,
                       at |-> clock]
    /\ UNCHANGED <<backend, patients, status, out, file, db, last, saved, ops, clock>>

\* time passes: the clock gives a later reading
Tick ==
    /\ \E j, k \in 1..Len(ClockValues) :
           j < k /\ clock = ClockValues[j] /\ clock' = ClockValues[k]
    /\ UNCHANGED <<backend, patients, status, out, file, db, last, saved, ops, view, reported>>

\* Alert with the high pressure taken from above 140 only: what C21 rules out
AlertHighStrict(r) ==
    IF r.kind = "BP"
    THEN IF r.v1 > 140 \/ r.v2 >= 90 THEN "ALERT: High Blood Pressure!"
         ELSE IF r.v1 <= 90 \/ r.v2 <= 60 THEN "ALERT: Low Blood Pressure!"
         ELSE ""
    ELSE ""

\* Alert with the low pressure taken from below 60 only: what C22 rules out
AlertLowStrict(r) ==
    IF r.kind = "BP"
    THEN IF r.v1 >= 140 \/ r.v2 >= 90 THEN "ALERT: High Blood Pressure!"
         ELSE IF r.v1 <= 90 \/ r.v2 < 60 THEN "ALERT: Low Blood Pressure!"
         ELSE ""
    ELSE ""

\* Alert with a sugar of exactly 70 taken for low: what C23 rules out
AlertSugarInclusive(r) ==
    IF r.kind = "Sugar"
    THEN IF r.v1 >= 126 * Pow10(Scale) THEN "ALERT: High Blood Sugar (Potential Diabetes)!"
         ELSE IF r.v1 <= 70 * Pow10(Scale) THEN "ALERT: Low Blood Sugar (Hypoglycemia)!"
         ELSE ""
    ELSE ""

\* the arrow display() of a record prints after the values: the if / else if
\* of BloodPressureRecord and of BloodSugarRecord; WeightRecord prints none
Alert(r) ==
    IF r.kind = "BP"
    THEN IF r.v1 >= 140 \/ r.v2 >= 90 THEN "ALERT: High Blood Pressure!"
         ELSE IF r.v1 <= 90 \/ r.v2 <= 60 THEN "ALERT: Low Blood Pressure!"
         ELSE ""
    ELSE IF r.kind = "Sugar"
    THEN IF r.v1 >= 126 * Pow10(Scale) THEN "ALERT: High Blood Sugar (Potential Diabetes)!"
         ELSE IF r.v1 < 70 * Pow10(Scale) THEN "ALERT: Low Blood Sugar (Hypoglycemia)!"
         ELSE ""
    ELSE ""

\* patientSubMenu case 1: Patient::display shows every record of the patient
\* selectPatient picked, each followed by its alert
Display ==
    /\ status = "running"
    /\ \E i \in 1..Len(patients) :
           view' = [op |-> "display", i |-> i, input |-> <<>>, weight |-> 0, said |-> <<>>,
                    shown |-> [k \in 1..Len(patients[i].records) |->
                                  [record |-> patients[i].records[k],
                                   alert |-> Alert(patients[i].records[k])]]]
    /\ UNCHANGED <<backend, patients, status, out, file, db, last, saved, ops, clock, reported>>

\* the collections the views are taken of: a patient with one weight of 0,
\* 50, 70, 74, 100 or 120 kg; with up to MaxRecords + 1 records among 70 kg,
\* an earlier 50 kg, 0 kg and a blood pressure; with up to MaxReminders + 1
\* reminders for 08:00 or 10:00 of 2026-01-02 or 2026-01-01; with one blood
\* pressure on or next to a threshold of either value, or one blood sugar on
\* or a hundred-thousandth below a threshold
QueryPatients ==
    LET bare == Patient(<<"a">>, 5, <<"c">>)
        pressures == {BloodPressureRecord(s, d, 100) :
                         s \in {89, 90, 91, 139, 140, 141}, d \in {59, 60, 61, 89, 90, 91}}
        sugars == {BloodSugarRecord(v, 100) :
                      v \in {0, 70 * Pow10(Scale) - 1, 70 * Pow10(Scale), 100 * Pow10(Scale),
                             126 * Pow10(Scale) - 1, 126 * Pow10(Scale), 200 * Pow10(Scale)}}
        weights == {WeightRecord(w * Pow10(Scale), 100) : w \in {0, 50, 70, 74, 100, 120}}
        core == {WeightRecord(70 * Pow10(Scale), 100), WeightRecord(50 * Pow10(Scale), 50),
                 WeightRecord(0, 100), BloodPressureRecord(120, 80, 100)}
        reminders ==
            {Reminder(<<"r">>, <<"2", "0", "2", "6", "-", "0", "1", "-", "0", d>>,
                 <<h[1], h[2], ":", "0", "0">>) :
                 d \in {"1", "2"}, h \in {<<"0", "8">>, <<"1", "0">>}}
    IN  {[bare EXCEPT !.records = rs] :
             rs \in {<<w>> : w \in weights \cup pressures \cup sugars}
                       \cup SeqsUpTo(core, MaxRecords + 1)}
        \cup {[bare EXCEPT !.reminders = rm] : rm \in SeqsUpTo(reminders, MaxReminders + 1)}

(***************************************************************************)
(* The specification of the views: the program was started on a database   *)
(* that holds one patient, with the records and reminders added in earlier *)
(* runs, and loadPatients has run; the views are asked for in any order,   *)
(* time passes, and the reminders are checked by later runs.               *)
(***************************************************************************)
InitQuery ==
    /\ backend = "sql"
    /\ \E p \in QueryPatients :
           /\ db = saveAllPatients(createTables(open(NoDatabase)), <<p>>, 0, FALSE)
           /\ patients = loadPatients(db)
    /\ status = "running"
    /\ out = <<MsgDbLoaded>>
    /\ file = [exists |-> FALSE, data |-> <<>>]
    /\ last = [op |-> "load", prev |-> "none", ok |-> TRUE, fresh |-> TRUE]
    /\ saved = NotSaved
    /\ ops = 0
    /\ clock = ClockValues[1]
    /\ view = NoView
    /\ reported = NotReported

NextQuery ==
    \/ CalculateBMI
    \/ DisplayHealthTrend
    \/ CheckReminders
    \/ Display
    \/ Tick

SpecQuery == InitQuery /\ [][NextQuery]_vars

(***************************************************************************)
(* The specification of patientSubMenu: a patient with nothing yet, or     *)
(* with one record, one medication and one reminder, was loaded from the   *)
(* database; records, medications and reminders are added and the views    *)
(* are taken, in any order.                                                *)
(***************************************************************************)
InitPatient ==
    /\ backend = "sql"
    /\ \E p \in FilePatients :
           /\ db = saveAllPatients(createTables(open(NoDatabase)), <<p>>, 0, FALSE)
           /\ patients = loadPatients(db)
    /\ status = "running"
    /\ out = <<MsgDbLoaded>>
    /\ file = [exists |-> FALSE, data |-> <<>>]
    /\ last = [op |-> "load", prev |-> "none", ok |-> TRUE, fresh |-> TRUE]
    /\ saved = NotSaved
    /\ ops = 0
    /\ clock = ClockValues[1]
    /\ view = NoView
    /\ reported = NotReported

NextPatient ==
    \/ AddRecord
    \/ AddMedication
    \/ AddReminder
    \/ CalculateBMI
    \/ DisplayHealthTrend
    \/ CheckReminders

SpecPatient == InitPatient /\ [][NextPatient]_vars

(***************************************************************************)
(* The specification of a session: main from the call of open (or of       *)
(* loadData) to its return.  The load comes first; the menu then takes the *)
(* Patient operations and the views in any order; choice 4 saves and       *)
(* leaves the loop, and main returns.  With the database, open may have    *)
(* failed, and main returns at once.  A session starts on the file or the  *)
(* database an earlier session left, if any.  The views of patientSubMenu  *)
(* change nothing a session goes by and are left to SpecPatient.           *)
(***************************************************************************)
\* main returns: return 1 after open failed, return 0 after the loop was left
\* with choice 4; db goes out of scope
Return ==
    /\ status = "running"
    /\ \/ backend = "sql" /\ db.handle # "open"
       \/ last.op = "save"
    /\ status' = "ended"
    /\ db' = IF backend = "sql" THEN Destructor(db) ELSE db
    /\ UNCHANGED <<backend, patients, out, file, last, saved, ops, clock, view, reported>>

InitMain ==
    /\ backend \in {"flat", "sql"}
    /\ patients = <<>>
    /\ status = "running"
    /\ out = <<>>
    /\ file \in IF backend = "flat"
                THEN {[exists |-> FALSE, data |-> <<>>],
                      [exists |-> TRUE, data |-> saveDataText(<<FullPatient>>)],
                      [exists |-> TRUE,
                       data |-> FileText(FormatInt(1),
                                    <<ReplaceLine(PatientLines(FullPatient), HeaderLine,
                                          <<"b", "|", "x", "|", "d">>)>>)]}
                ELSE {[exists |-> FALSE, data |-> <<>>]}
    /\ db \in IF backend = "sql"
              THEN LET left == {NoDatabase,
                                saveAllPatients(createTables(open(NoDatabase)),
                                    <<FullPatient>>, 0, FALSE)}
                   IN  {createTables(open(d)) : d \in left}
                       \cup {openFails(d, a) : d \in left, a \in BOOLEAN}
              ELSE {createTables(open(NoDatabase))}
    /\ last = [op |-> "none", prev |-> "none", ok |-> TRUE, fresh |-> TRUE]
    /\ saved = NotSaved
    /\ ops = 0
    /\ clock = ClockValues[1]
    /\ view = NoView
    /\ reported = NotReported

\* the load and the reminder check before the menu; in the menu, which is
\* shown once the load is done and until choice 4 is made, the additions and
\* the save of choice 4; the return
NextMain ==
    \/ last.op = "none" /\ LoadData
    \/ last.op = "none" /\ db.handle = "open" /\ LoadPatients
    \/ last.op = "load" /\ CheckReminders
    \/ last.op \notin {"none", "save"} /\ AddNewPatient
    \/ last.op \notin {"none", "save"} /\ AddRecord
    \/ last.op \notin {"none", "save"} /\ AddMedication
    \/ last.op \notin {"none", "save"} /\ AddReminder
    \/ last.op \notin {"none", "save"} /\ SaveData
    \/ last.op \notin {"none", "save"} /\ SaveAllPatients
    \/ Return

SpecMain == InitMain /\ [][NextMain]_vars

(***************************************************************************)
(* Properties.                                                             *)
(***************************************************************************)
\* the rows of the four tables
Tables(d) == <<d.patients, d.health_records, d.medications, d.reminders>>

\* an error message is among what was printed
Reported(o) == \E i \in 1..Len(o) : o[i] \in ErrorMsgs

\* the last operation was loadData, called with an empty vector
LoadedFresh == last.op = "load" /\ last.fresh

\* the file is the count n, the blocks of the collection P, and then pre
HoldsBlocksThen(n, P, pre) == StartsWith(file.data, Flatten(FileLines(n, P)) \o pre)

\* C1: flat-file round trip.  After saveData(P) and a loadData into an empty
\* vector, the vector equals P: the same patients in the same order, each
\* with the same name, age, contact and the same records (kind, values,
\* timestamp), medications and reminders in the same order.
C1_FlatRoundTrip ==
    (backend = "flat" /\ LoadedFresh /\ saved.valid /\ file.data = saveDataText(saved.P))
        => patients = saved.P

\* C2: relational round trip.  After saveAllPatients(P), every statement of
\* which went through, loadPatients yields P: the patients in the order of
\* P, each with its records, medications and reminders in insertion order.
C2_RelationalRoundTrip ==
    (backend = "sql" /\ last.op = "load" /\ saved.valid) => patients = saved.P

\* C3: idempotent save.  A save that follows a save of the same collection
\* leaves the flat file with the same contents and each of the four tables
\* with the same rows.
C3_IdempotentSave ==
    [][(last.op = "save" /\ last.ok /\ last'.op = "save" /\ last'.ok /\ ops' # ops)
          => (file' = file /\ Tables(db') = Tables(db))]_vars

\* C4: no orphans.  Whatever collections saveAllPatients was called with,
\* every row of health_records, medications and reminders references the id
\* of a row that is in patients.
C4_NoOrphans ==
    \A t \in {db.health_records, db.medications, db.reminders} :
        \A i \in 1..Len(t) : t[i].patient_id \in RowIds(db.patients)

\* C4 witness: a patient with a record was saved, and a later save of a
\* collection without that patient went through; the record's row is gone
C4_Witness ==
    /\ backend = "sql"
    /\ last.op = "save" /\ last.ok
    /\ patients = <<>>
    /\ db.seq.patients >= 1 /\ db.seq.health_records >= 1
    /\ db.patients = <<>> /\ db.health_records = <<>>

\* C5: a failed save is not partial.  A save that fails (the file cannot be
\* opened for writing, a statement of saveAllPatients fails) leaves the
\* persisted contents as they were.
C5_FailedSaveNotPartial ==
    [][(last'.op = "save" /\ ~last'.ok /\ ops' # ops)
          => (file' = file /\ Tables(db') = Tables(db))]_vars

\* C6: loadData never terminates the process.  Whatever the file holds,
\* the process is running after loadData.
C6_LoadNeverTerminates == last.op = "load" => status = "running"

\* C7: truncated file.  When the file declares n patients and holds the
\* well-formed blocks of k < n patients and nothing else, loadData into an
\* empty vector loads exactly those k patients in file order, reports an
\* error and returns.
C7_TruncatedFile ==
    \A P \in FileCollections : \A n \in (Len(P) + 1)..(MaxBlocks + 1) :
        (LoadedFresh /\ file.data = Flatten(FileLines(n, P)))
            => (patients = P /\ Reported(out) /\ status = "running")

\* C7 witness: count 2, one block, loaded
C7_Witness ==
    /\ LoadedFresh
    /\ file.data = Flatten(FileLines(2, <<FullPatient>>))
    /\ patients = <<FullPatient>>
    /\ out = <<MsgPatientLine, MsgLoaded>>

\* C8: malformed patient line.  When the header line of the i-th patient
\* holds fewer than two separators, loadData stops there: the i-1 patients
\* before it are the result, and nothing built from that line or a later one.
C8_MalformedPatientLine ==
    \A P \in FileCollections : \A n \in (Len(P) + 1)..(MaxBlocks + 1) : \A h \in BadHeaders :
        (LoadedFresh /\ HoldsBlocksThen(n, P, h \o <<NL>>))
            => (patients = P /\ Reported(out) /\ status = "running")

\* C8 witness: the second header line has one separator, and the lines of
\* its block follow it; the first patient alone is loaded
C8_Witness ==
    /\ LoadedFresh
    /\ file.data = FileText(FormatInt(2),
           <<PatientLines(BarePatient),
             ReplaceLine(PatientLines(FullPatient), HeaderLine, <<"b", "|", "6", "d">>)>>)
    /\ patients = <<BarePatient>>
    /\ out = <<MsgPatientParse, MsgLoaded>>

\* C9: malformed line inside a block.  When a record line has an unknown
\* type or a field that is no number, or a medication or reminder line
\* holds fewer than two separators, loadData stops and the patient of that
\* block is not added: the patients before it are the result.
C9_MalformedInnerLine ==
    \A P \in FileCollections : \A n \in (Len(P) + 1)..(MaxBlocks + 1) : \A b \in BadInnerBlocks :
        (LoadedFresh /\ HoldsBlocksThen(n, P, Flatten(b)))
            => (patients = P /\ status = "running")

\* C10: patient-count bound.  When the first value of the file is no
\* integer, or negative, or above the ceiling, loadData reports an error,
\* leaves the vector as it was and returns.
C10_PatientCountBound ==
    [][(last'.op = "load" /\ ops' # ops
            /\ \E c \in BadCounts : StartsWith(file.data, c \o <<NL>>))
          => (patients' = patients /\ Reported(out') /\ status' = "running")]_vars

\* C10 witness: a vector of one patient, a file that declares 10001
C10_Witness ==
    /\ last.op = "load" /\ ~last.fresh
    /\ StartsWith(file.data, FormatInt(MaxPatientCount + 1) \o <<NL>>)
    /\ Len(patients) = 1
    /\ out = <<MsgUnreasonable>>

\* C11: record-count bound.  When a block declares a negative number of
\* records, medications or reminders, loadData stops at that block and
\* reports it: the patients of the blocks before it are the result.
C11_RecordCountBound ==
    \A P \in FileCollections : \A b \in NegativeCountBlocks :
        (LoadedFresh /\ file.data = FileText(FormatInt(Len(P) + 1), Append(BlocksOf(P), b)))
            => (patients = P /\ Reported(out) /\ status = "running")

\* C12: missing file.  loadData where no file exists returns normally: the
\* process runs on, no error is reported and no patient is added, so that
\* the vector main passes, which is empty, is empty after the call.
C12_MissingFile ==
    [][(last'.op = "load" /\ ops' # ops /\ backend = "flat" /\ ~file.exists)
          => (/\ status' = "running" /\ last'.ok
              /\ out' = <<MsgNoData>> /\ ~Reported(out')
              /\ patients' = patients
              /\ (last'.fresh => patients' = <<>>))]_vars

\* C12 witness: the program was started, no file was there, loadData ran
C12_Witness ==
    /\ backend = "flat"
    /\ LoadedFresh /\ last.prev \in {"none", "restart"}
    /\ ~file.exists
    /\ patients = <<>>
    /\ out = <<MsgNoData>>

\* the collection the store holds: what a load into an empty vector yields
Persisted ==
    IF backend = "flat" THEN LoadDataResult(file, <<>>, 0).patients ELSE loadPatients(db)

\* how many records, medications and reminders each patient of P has
Shape(P) ==
    [i \in 1..Len(P) |->
        <<Len(P[i].records), Len(P[i].medications), Len(P[i].reminders)>>]

\* C13: wholesale replace.  After a load the vector is the persisted
\* collection, whatever it held before the load; after a save that went
\* through the store holds the patients of the vector, each with as many
\* records, medications and reminders, and nothing that was persisted
\* before (that each value is the one saved is C1 and C2).
C13_WholesaleReplace ==
    /\ (last.op = "load" /\ last.ok) => patients = Persisted
    /\ (last.op = "save" /\ last.ok) => Shape(Persisted) = Shape(patients)

\* a text field of a patient of P, or of one of its medications or
\* reminders, holds the separator
HasBar(P) ==
    \E i \in 1..Len(P) :
        LET p == P[i]
            texts ==
                {p.name, p.contactInfo}
                \cup UNION {{p.medications[j].name, p.medications[j].dosage,
                             p.medications[j].schedule} : j \in 1..Len(p.medications)}
                \cup UNION {{p.reminders[j].message, p.reminders[j].date,
                             p.reminders[j].reminderTime} : j \in 1..Len(p.reminders)}
        IN  \E t \in texts : Find(t, Bar, 0) # NPOS

\* C14: reserved delimiter.  When a text field of the collection holds '|',
\* saveData writes no file that loads back as another collection: a
\* loadData into an empty vector after a saveData that went through yields
\* the collection that was saved.
C14_ReservedDelimiter ==
    (backend = "flat" /\ last.op = "load" /\ last.fresh /\ saved.valid /\ HasBar(saved.P))
        => patients = saved.P

\* C15: BMI preconditions.  calculateAndDisplayBMI displays a BMI exactly
\* when the patient holds a Weight record and the height typed is a number
\* above 0; otherwise it displays none and prints that it cannot; either
\* way the patients are as they were and the program runs on.
C15_BmiPreconditions ==
    [][(view'.op = "bmi" /\ view' # view)
          => LET p == patients[view'.i]
                 holds == \E k \in 1..Len(p.records) : p.records[k].kind = "Weight"
                 h == ReadDouble(view'.input, [pos |-> 1, fail |-> FALSE, eof |-> FALSE])
             IN  /\ (view'.shown # <<>>) <=> (holds /\ h.ok /\ h.val > 0)
                 /\ (view'.shown = <<>>)
                        => view'.said \in
                               {<<"BMI cannot be calculated. No weight records found.">>,
                                <<"Invalid height. Cannot calculate BMI.">>}
                 /\ patients' = patients
                 /\ status' = "running"]_vars

\* C16: BMI classification.  The BMI displayed is weight / height^2 (in
\* hundredths: the largest b with b * height^2 <= 100 * weight), and its
\* category is Underweight below 18.5, Normal weight from 18.5 to 24.99,
\* Overweight from 25 to 29.99, Obesity from 30: exactly one of the four.
C16_BmiClassification ==
    (view.op = "bmi" /\ view.shown # <<>>)
        => LET d == view.shown[1]
               cm == d.height \div Pow10(Scale - 2)
               sq == cm * cm * Pow10(Scale - 5)
               cat == view.said[1]
           IN  /\ d.weight = view.weight
               /\ d.bmi * sq <= d.weight * 10 /\ d.weight * 10 < (d.bmi + 1) * sq
               /\ cat = "Category: Underweight" <=> d.bmi <= 1849
               /\ cat = "Category: Normal weight" <=> (1850 <= d.bmi /\ d.bmi <= 2499)
               /\ cat = "Category: Overweight" <=> (2500 <= d.bmi /\ d.bmi <= 2999)
               /\ cat = "Category: Obesity" <=> 3000 <= d.bmi
               /\ (d.weight = 70 * Pow10(Scale) /\ cm = 175) => cat = "Category: Normal weight"
               /\ (d.weight = 50 * Pow10(Scale) /\ cm = 160) => cat = "Category: Normal weight"
               /\ (d.weight = 100 * Pow10(Scale) /\ cm = 160) => cat = "Category: Obesity"

\* C16 witness: 74 kg at 2 m, a BMI of 18.5, is Normal weight
C16_Witness ==
    /\ view.op = "bmi"
    /\ view.input = <<"2">>
    /\ patients[view.i].records = <<WeightRecord(74 * Pow10(Scale), 100)>>
    /\ view.shown = <<[weight |-> 74 * Pow10(Scale), height |-> 2 * Pow10(Scale), bmi |-> 1850]>>
    /\ view.said = <<"Category: Normal weight">>

\* C17: most-recent weight.  The weight calculateAndDisplayBMI looks up is
\* that of the Weight record appended last, whatever the timestamps, and it
\* prints that there is no weight record exactly when the patient has none.
C17_MostRecentWeight ==
    [][(view'.op = "bmi" /\ view' # view)
          => LET records == patients[view'.i].records
                 W == {k \in 1..Len(records) : records[k].kind = "Weight"}
             IN  /\ (W = {}) <=>
                        view'.said = <<"BMI cannot be calculated. No weight records found.">>
                 /\ W # {} =>
                        view'.weight = records[CHOOSE k \in W : \A m \in W : m <= k].v1]_vars

\* C18: trend query.  For the choice 1, 2 or 3 displayHealthTrend displays
\* the patient's records of the kind BP, Weight or Sugar: as many as there
\* are, the n-th displayed being the n-th of that kind in insertion order;
\* with none of that kind it displays nothing and reports no invalid
\* request; for anything else typed it displays nothing and prints that the
\* request is invalid.  The patients are as they were.
C18_TrendQuery ==
    [][(view'.op = "trend" /\ view' # view)
          => LET records == patients[view'.i].records
                 typed == view'.input
                 kind == CASE typed = <<"1">> -> "BP" [] typed = <<"2">> -> "Weight"
                           [] typed = <<"3">> -> "Sugar" [] OTHER -> "other"
                 idx == {k \in 1..Len(records) : records[k].kind = kind}
                 nth(n) == CHOOSE k \in idx : Cardinality({m \in idx : m <= k}) = n
                 invalid == {"Invalid input.", "Invalid choice."}
             IN  /\ kind # "other" =>
                        /\ Len(view'.shown) = Cardinality(idx)
                        /\ \A n \in 1..Len(view'.shown) : view'.shown[n] = records[nth(n)]
                        /\ \A n \in 1..Len(view'.said) : view'.said[n] \notin invalid
                 /\ kind = "other" =>
                        /\ view'.shown = <<>>
                        /\ view'.said[Len(view'.said)] \in invalid
                 /\ patients' = patients
                 /\ status' = "running"]_vars

\* C18 witness: of 70 kg and 50 kg, the second with the earlier timestamp,
\* the weight trend displays 70 kg and then 50 kg
C18_Witness ==
    /\ view.op = "trend"
    /\ view.input = <<"2">>
    /\ patients[view.i].records =
           <<WeightRecord(70 * Pow10(Scale), 100), WeightRecord(50 * Pow10(Scale), 50)>>
    /\ view.said = <<"--- Trend Report ---">>
    /\ view.shown = <<WeightRecord(70 * Pow10(Scale), 100), WeightRecord(50 * Pow10(Scale), 50)>>

\* C19: due-reminder rule.  checkReminders displays a reminder exactly when
\* its date is the day the clock shows and its time is not after the time
\* the clock shows, date and time taken as numbers: the reminders displayed
\* are the due ones, each once, in the order the patient holds them.
C19_DueReminderRule ==
    [][(view'.op = "reminders" /\ (view' # view \/ reported' # reported))
          => LET num(str, from, to) == DigitsValue(str, from, to, 0)
                 due(r) ==
                     /\ num(r.date, 1, 4) = 1900 + clock.tm_year
                     /\ num(r.date, 6, 7) = 1 + clock.tm_mon
                     /\ num(r.date, 9, 10) = clock.tm_mday
                     /\ 60 * num(r.reminderTime, 1, 2) + num(r.reminderTime, 4, 5)
                            <= 60 * clock.tm_hour + clock.tm_min
             IN  view'.shown = SelectSeq(patients[view'.i].reminders, due)]_vars

\* C19 witness: at 09:00 of 2026-01-02, of the reminders of that day for
\* 08:00 and for 10:00, the first is displayed and the second is not
C19_Witness ==
    /\ view.op = "reminders"
    /\ reported.at = ClockValues[4] /\ reported.since = ClockValues[4]
    /\ Len(patients[view.i].reminders) = 2
    /\ patients[view.i].reminders[1].reminderTime = <<"0", "8", ":", "0", "0">>
    /\ patients[view.i].reminders[2].reminderTime = <<"1", "0", ":", "0", "0">>
    /\ \A j \in 1..2 :
           patients[view.i].reminders[j].date =
               <<"2", "0", "2", "6", "-", "0", "1", "-", "0", "2">>
    /\ view.shown = <<patients[view.i].reminders[1]>>

\* C20: reminders are never acknowledged.  A reminder that a check of the
\* day the clock shows displayed as due is displayed by every later check
\* of that day; a check leaves the patients as they were.
C20_NeverAcknowledged ==
    [][(view'.op = "reminders" /\ (view' # view \/ reported' # reported))
          => /\ \A e \in reported.due :
                    (e[1] = view'.i
                        /\ reported.day = <<clock.tm_year, clock.tm_mon, clock.tm_mday>>)
                      => \E n \in 1..Len(view'.shown) :
                             view'.shown[n] = patients[e[1]].reminders[e[2]]
             /\ patients' = patients
             /\ status' = "running"]_vars

\* C20 witness: the reminder for 08:00 of 2026-01-02 was displayed at 08:00
\* that day and is displayed again at 10:30
C20_Witness ==
    /\ view.op = "reminders"
    /\ reported.since = ClockValues[3] /\ reported.at = ClockValues[5]
    /\ <<view.i, 1>> \in reported.due
    /\ patients[view.i].reminders[1] =
           Reminder(<<"r">>, <<"2", "0", "2", "6", "-", "0", "1", "-", "0", "2">>,
               <<"0", "8", ":", "0", "0">>)
    /\ view.shown[1] = patients[view.i].reminders[1]

\* C21: whenever a patient's records are displayed, a blood pressure record
\* carries the high pressure alert exactly when its systolic value is at
\* least 140 or its diastolic value is at least 90.
C21_HighPressureAlert ==
    view.op = "display" =>
        \A k \in 1..Len(view.shown) :
            LET r == view.shown[k].record IN
            r.kind = "BP" =>
                (view.shown[k].alert = "ALERT: High Blood Pressure!"
                     <=> (r.v1 >= 140 \/ r.v2 >= 90))

\* a pressure of 140 over 89 is displayed with the high alert, and one of 139
\* over 89 without it
C21_Witness ==
    /\ view.op = "display"
    /\ Len(view.shown) = 1
    /\ view.shown[1].record.kind = "BP"
    /\ view.shown[1].record.v1 = 140
    /\ view.shown[1].record.v2 = 89
    /\ view.shown[1].alert = "ALERT: High Blood Pressure!"

\* C22 as stated: a displayed blood pressure record carries the low pressure
\* alert whenever its systolic value is at most 90 or its diastolic value is
\* at most 60, and carries no alert only when neither the high nor the low
\* condition holds.
C22_LowPressureAlert ==
    view.op = "display" =>
        \A k \in 1..Len(view.shown) :
            LET r == view.shown[k].record IN
            r.kind = "BP" =>
                /\ (r.v1 <= 90 \/ r.v2 <= 60)
                       => view.shown[k].alert = "ALERT: Low Blood Pressure!"
                /\ view.shown[k].alert = ""
                       => ~(r.v1 >= 140 \/ r.v2 >= 90 \/ r.v1 <= 90 \/ r.v2 <= 60)

\* C22 amended: a displayed blood pressure record carries the low pressure
\* alert exactly when its systolic value is at most 90 or its diastolic value
\* is at most 60 and the high condition does not hold, and carries no alert
\* exactly when neither condition holds.
C22_LowUnlessHigh ==
    view.op = "display" =>
        \A k \in 1..Len(view.shown) :
            LET r == view.shown[k].record
                high == r.v1 >= 140 \/ r.v2 >= 90
                low == r.v1 <= 90 \/ r.v2 <= 60
            IN  r.kind = "BP" =>
                    /\ view.shown[k].alert = "ALERT: Low Blood Pressure!" <=> (low /\ ~high)
                    /\ view.shown[k].alert = "" <=> (~low /\ ~high)

\* a pressure of 141 over 59 meets both conditions and is displayed with the
\* high alert
C22_Witness ==
    /\ view.op = "display"
    /\ Len(view.shown) = 1
    /\ view.shown[1].record.kind = "BP"
    /\ view.shown[1].record.v1 = 141
    /\ view.shown[1].record.v2 = 59
    /\ view.shown[1].alert = "ALERT: High Blood Pressure!"

\* C23: a displayed blood sugar record carries the high alert exactly when its
\* value is at least 126, the low alert exactly when its value is below 70,
\* and no alert exactly when the value is at least 70 and below 126; a
\* displayed weight record never carries an alert.
C23_SugarAlert ==
    view.op = "display" =>
        \A k \in 1..Len(view.shown) :
            LET r == view.shown[k].record
                a == view.shown[k].alert
            IN  /\ r.kind = "Sugar" =>
                    /\ a = "ALERT: High Blood Sugar (Potential Diabetes)!"
                           <=> r.v1 >= 126 * Pow10(Scale)
                    /\ a = "ALERT: Low Blood Sugar (Hypoglycemia)!"
                           <=> r.v1 < 70 * Pow10(Scale)
                    /\ a = "" <=> (r.v1 >= 70 * Pow10(Scale) /\ r.v1 < 126 * Pow10(Scale))
                /\ r.kind = "Weight" => a = ""

\* a sugar of exactly 70 is displayed without an alert
C23_Witness ==
    /\ view.op = "display"
    /\ Len(view.shown) = 1
    /\ view.shown[1].record.kind = "Sugar"
    /\ view.shown[1].record.v1 = 70 * Pow10(Scale)
    /\ view.shown[1].alert = ""

C25_RecordImmutability ==
    [][LET Stamps(P) ==
               [i \in 1..Len(P) |->
                   [k \in 1..Len(P[i].records) |->
                       <<P[i].records[k].kind, P[i].records[k].ts>>]]
           n == Len(patients)
       IN  ops' # ops =>
           /\ last'.op = "add" =>
                  /\ Len(patients') >= n
                  /\ \A i \in 1..n :
                         /\ Len(patients'[i].records) >= Len(patients[i].records)
                         /\ \A k \in 1..Len(patients'[i].records) :
                                IF k <= Len(patients[i].records)
                                THEN Stamps(patients')[i][k] = Stamps(patients)[i][k]
                                ELSE patients'[i].records[k].ts \in Times
           /\ last'.op = "save" => patients' = patients
           /\ (last'.op = "load" /\ last'.ok /\ saved.valid) =>
                  IF backend = "flat"
                  THEN /\ Len(patients') = n + Len(saved.P)
                       /\ Stamps(SubSeq(patients', 1, n)) = Stamps(patients)
                       /\ Stamps(SubSeq(patients', n + 1, Len(patients'))) = Stamps(saved.P)
                  ELSE Stamps(patients') = Stamps(saved.P)]_vars

\* a blood pressure entered at time 100, saved and loaded into the empty
\* vector of a new run, is a blood pressure of time 100
C25_Witness ==
    /\ last.op = "load"
    /\ last.prev = "restart"
    /\ saved.valid
    /\ Len(patients) = 1
    /\ Len(patients[1].records) = 1
    /\ patients[1].records[1].kind = "BP"
    /\ patients[1].records[1].ts = 100


\* C26: every saveAllPatients leaves one row of patients per patient of the
\* collection, in its order, each with an id above every id the table ever
\* gave before the save (sqlite_sequence) and different from the others; and
\* the rows of health_records, medications and reminders that carry the id
\* of the i-th row are as many as the i-th patient's records, medications
\* and reminders, and no such row carries another id.
C26_FreshSurrogateIds ==
    [][(backend = "sql" /\ ops' # ops /\ last'.op = "save") =>
           LET rows == db'.patients
               Owned(t, id) == Cardinality({j \in 1..Len(t) : t[j].patient_id = id})
           IN  /\ Len(rows) = Len(patients)
               /\ \A i \in 1..Len(rows) :
                      /\ rows[i].id > db.seq.patients
                      /\ \A j \in 1..Len(rows) : rows[j].id = rows[i].id => j = i
                      /\ Owned(db'.health_records, rows[i].id) = Len(patients[i].records)
                      /\ Owned(db'.medications, rows[i].id) = Len(patients[i].medications)
                      /\ Owned(db'.reminders, rows[i].id) = Len(patients[i].reminders)
               /\ \A t \in {db'.health_records, db'.medications, db'.reminders} :
                      \A j \in 1..Len(t) : \E i \in 1..Len(rows) : t[j].patient_id = rows[i].id]_vars

\* C26 for the saves every statement of which went through
C26_WhenNoStatementFails ==
    [][(backend = "sql" /\ ops' # ops /\ last'.op = "save" /\ last'.ok) =>
           LET rows == db'.patients
               Owned(t, id) == Cardinality({j \in 1..Len(t) : t[j].patient_id = id})
           IN  /\ Len(rows) = Len(patients)
               /\ \A i \in 1..Len(rows) :
                      /\ rows[i].id > db.seq.patients
                      /\ \A j \in 1..Len(rows) : rows[j].id = rows[i].id => j = i
                      /\ Owned(db'.health_records, rows[i].id) = Len(patients[i].records)
                      /\ Owned(db'.medications, rows[i].id) = Len(patients[i].medications)
                      /\ Owned(db'.reminders, rows[i].id) = Len(patients[i].reminders)
               /\ \A t \in {db'.health_records, db'.medications, db'.reminders} :
                      \A j \in 1..Len(t) : \E i \in 1..Len(rows) : t[j].patient_id = rows[i].id]_vars

\* C27: a load into the empty vector from a file of no patient or of one,
\* written with "\r\n" line endings, yields the collection that the load
\* from the same file written with "\n" line endings yields.
C27_LineEndingTolerance ==
    \A P \in SeqsUpTo(FilePatients, 1) :
        LET text == FileText(FormatInt(Len(P)), BlocksOf(P)) IN
        (LoadedFresh /\ last.ok /\ file.data = WithCR(text))
            => \A garbage \in Indeterminate :
                   patients = LoadDataResult([exists |-> TRUE, data |-> text],
                                  <<>>, garbage).patients


\* C28: in a session, a Patient operation is taken only once the load has
\* returned; after a save nothing is done but to return from main; and a run
\* ends (main returns, or the process is terminated) only from a state whose
\* last persistence operation is a save, made on the collection as it is.
C28_SessionOrder ==
    [][/\ (ops' # ops /\ last'.op = "add") => (last.op # "none" /\ status = "running")
       /\ last.op = "save" => (status' = "ended" /\ patients' = patients /\ last' = last)
       /\ (status = "running" /\ status' # "running")
              => (last'.op = "save" /\ (last'.ok => saved'.P = patients'))]_vars

\* C28 for the runs that reach the menu and leave it: those in which open
\* succeeded and loadData returned
C28_FromTheMenu ==
    [][/\ (ops' # ops /\ last'.op = "add") => (last.op # "none" /\ status = "running")
       /\ last.op = "save" => (status' = "ended" /\ patients' = patients /\ last' = last)
       /\ (status = "running" /\ status' = "ended" /\ last.op # "none")
              => (last'.op = "save" /\ (last'.ok => saved'.P = patients'))]_vars

\* C29: every reminder a patient holds has a date of four digits, a hyphen,
\* two digits, a hyphen and two digits, and a time of two digits, a colon
\* and two digits.
C29_ReminderFormat ==
    \A i \in 1..Len(patients) :
        \A j \in 1..Len(patients[i].reminders) :
            LET d == patients[i].reminders[j].date
                t == patients[i].reminders[j].reminderTime
            IN  /\ Len(d) = 10
                /\ \A k \in {1, 2, 3, 4, 6, 7, 9, 10} : d[k] \in DigitSet
                /\ d[5] = "-" /\ d[8] = "-"
                /\ Len(t) = 5
                /\ \A k \in {1, 2, 4, 5} : t[k] \in DigitSet
                /\ t[3] = ":"


\* C30: in a session on the database, when main returns the handle open
\* acquired, usable or not, has been closed by one call of sqlite3_close, and
\* no call is made when sqlite3_open left no handle; the handle is closed
\* only when main returns; and once it is closed no persistence operation
\* runs and the database is left alone.
C30_HandleRelease ==
    [][backend = "sql" =>
           /\ (status = "running" /\ status' = "ended") =>
                  IF db.handle = "null"
                  THEN db'.handle = "null" /\ db'.closes = 0
                  ELSE db'.handle = "closed" /\ db'.closes = 1
           /\ db'.handle = "closed" => status' = "ended"
           /\ db'.closes <= 1
           /\ db.handle = "closed" => (db' = db /\ last' = last)]_vars

\* open failed and left a handle: main returned at once, before any load or
\* save, and the handle was closed once
C30_Witness ==
    /\ backend = "sql"
    /\ status = "ended"
    /\ last.op = "none"
    /\ db.handle = "closed"
    /\ db.closes = 1
====
